---- MODULE Spec2Model ----
(***************************************************************************)
(* A model of ginga/gtkw/Widgets.py: the wrapped-widget layer over Gtk.    *)
(*                                                                         *)
(* The module holds one group of variables per widget family and one       *)
(* specification per family:                                               *)
(*   SpecContainer  ContainerBase, Box, Frame, Expander, ScrollArea        *)
(*   SpecSplitter   Splitter and its pane chain                            *)
(*   SpecStatusBar  StatusBar and its auto-clear timer                     *)
(*   SpecTextArea   TextArea and its history limit                         *)
(*   SpecComboBox   ComboBox and its list model                            *)
(*   SpecTreeView   TreeView and its tree store                            *)
(*   SpecApplication  Application's window registry and TopLevel close     *)
(*   SpecFactory    the oriented constructors and make_widget              *)
(*   SpecImage      Image and its click latch                              *)
(*   SpecEvents     the controls, their native signals and event names     *)
(*   SpecSaveDialog SaveDialog and the path it returns                     *)
(*   SpecMenubar    Menubar and the Menus it creates                       *)
(* Each specification moves its own group and leaves the others alone.     *)
(***************************************************************************)
EXTENDS Integers, Sequences, FiniteSets, TLC

VARIABLES
    \* ---- containers (Box, Frame, Expander, ScrollArea)
    children,     \* self.children of every container: a list of child wrappers
    nparent,      \* the Gtk parent of every child's native widget
    ctErr,        \* outcome of the last container call: "none" or "KeyError"
    ctLast,       \* the last container call: [op, c, w]
    ctRef,        \* the same calls replayed on a plain ordered list
    \* ---- Splitter
    spChildren,   \* self.children of the Splitter
    panes,        \* self.panes: the nested panes, in creation order
    slot1,        \* child1 of every pane (pane 0 is self.widget, the root)
    slot2,        \* child2 of every pane
    spParent,     \* the Gtk parent pane of every child's native widget
    spErr,        \* outcome of the last Splitter call
    spRemoved,    \* whether a child was ever removed from the Splitter
    \* ---- StatusBar
    sbStack,      \* the messages the gtk.Statusbar shows for the context
    ctx_id,       \* self.ctx_id: "None" or the context id "status"
    statustask,   \* self.statustask: 0 for None, else a glib source id
    sbPending,    \* the glib timeout sources that are scheduled: [id, ctx]
    sbNextId,     \* the id glib gives the next source
    sbRemoved,    \* what source_remove did in the last set_message
    sbLastMsg,    \* the text of the most recent set_message
    sbOp,         \* the last StatusBar step
    \* ---- TextArea
    taBuf,        \* the gtk.TextBuffer: a sequence of characters
    histlimit,    \* self.histlimit
    taUntrimmed,  \* the buffer the last call had before its housekeeping
    taScroll,     \* the offset the last call scrolled the view to, or -1
    taAll,        \* all text appended since the last clear
    taZero,       \* whether histlimit was 0 ever since the last clear
    taOp,         \* the last TextArea call
    \* ---- ComboBox
    cbModel,      \* the gtk.ListStore: the entries in index order
    cbInserted,   \* the texts given to insert_alpha, in call order
    cbOnlyAlpha,  \* whether every entry so far came from insert_alpha
    \* ---- TreeView
    tvColumns,    \* self.columns: the declared headers
    tvRows,       \* the gtk.TreeStore of self.tv: rows in creation order
    tvTree,       \* the mapping the rows were built from by set_tree
    tvCursor,     \* the row the cursor was last moved to, or 0
    tvEvents,     \* the `selected` payloads the last step fired
    tvErr,        \* the exception the last step raised, or "none"
    tvOp,         \* the last TreeView step
    \* ---- Application and TopLevel
    tlBuilt,      \* the TopLevel objects constructed so far
    tlWid,        \* window.wid of every TopLevel: None until registered
    tlDestroyed,  \* the TopLevels whose native window was destroyed
    window_dict,  \* Application.window_dict: id -> TopLevel
    wincnt,       \* Application.wincnt
    apAuto,       \* the ids add_window generated, in call order
    apOp,         \* the last step: [op, w, closed, requests, emits]
    \* ---- constructors and make_widget
    fcBuilt,      \* the widgets constructed so far: [cls, native]
    fcErr,        \* the exception the last construction raised, or "none"
    fcOp,         \* the last construction: [fn, arg]
    \* ---- Image
    imBuilt,      \* whether the Image is constructed
    imAction,     \* self._action: "None" or "click"
    imMenu,       \* self.menu: "None" or "menu"
    imEvents,     \* the button events delivered so far
    imPresses,    \* the primary-button presses so far
    imActivated,  \* how often `activated` was fired so far
    imPending,    \* whether a primary press came since the last `activated`
    imLast,       \* the last event: [sig, type, button, fired, popups, pending]
    \* ---- controls and their events
    evCls,        \* the class of the control under view, or "none"
    evHandlers,   \* its connected native signals: [sig, name] per handler
    evEnabled,    \* the event names its constructor enabled
    evListeners,  \* the event names the application registered listeners for
    evErr,        \* the exception the last step raised, or "none"
    evOp,         \* the last step: [op, arg]
    \* ---- SaveDialog
    sdFilter,     \* the selectedfilter the dialog was constructed with
    sdSelected,   \* self.selectedfilter
    sdResponse,   \* the response of the last run of the dialog, or "none"
    sdChosen,     \* the file name chosen in the last run
    sdResult,     \* what the last get_path returned
    sdDestroyed,  \* whether the native dialog was destroyed
    \* ---- Menubar
    mbChildren,   \* self.children of the Menubar: the Menu wrappers
    mbBar,        \* the native children of the gtk.MenuBar, in order
    mbSubmenu,    \* the gtk.Menu each gtk.MenuItem has as its submenu
    mbMade,       \* the Menus add_name has created so far
    mbErr,        \* the exception the last Menubar call raised, or "none"
    mbOp          \* the last Menubar call: [op, arg]

ctVars == <<children, nparent, ctErr, ctLast, ctRef>>
spVars == <<spChildren, panes, slot1, slot2, spParent, spErr, spRemoved>>
sbVars == <<sbStack, ctx_id, statustask, sbPending, sbNextId, sbRemoved,
            sbLastMsg, sbOp>>
taVars == <<taBuf, histlimit, taUntrimmed, taScroll, taAll, taZero, taOp>>
cbVars == <<cbModel, cbInserted, cbOnlyAlpha>>
tvVars == <<tvColumns, tvRows, tvTree, tvCursor, tvEvents, tvErr, tvOp>>
apVars == <<tlBuilt, tlWid, tlDestroyed, window_dict, wincnt, apAuto, apOp>>
fcVars == <<fcBuilt, fcErr, fcOp>>
imVars == <<imBuilt, imAction, imMenu, imEvents, imPresses, imActivated,
            imPending, imLast>>
evVars == <<evCls, evHandlers, evEnabled, evListeners, evErr, evOp>>
sdVars == <<sdFilter, sdSelected, sdResponse, sdChosen, sdResult,
            sdDestroyed>>
mbVars == <<mbChildren, mbBar, mbSubmenu, mbMade, mbErr, mbOp>>

vars == <<ctVars, spVars, sbVars, taVars, cbVars, tvVars, apVars, fcVars,
          imVars, evVars, sdVars, mbVars>>

\* what a step of one family leaves alone
ctOthers == <<spVars, sbVars, taVars, cbVars, tvVars, apVars, fcVars, imVars, evVars,
              sdVars, mbVars>>
spOthers == <<ctVars, sbVars, taVars, cbVars, tvVars, apVars, fcVars, imVars, evVars,
              sdVars, mbVars>>
sbOthers == <<ctVars, spVars, taVars, cbVars, tvVars, apVars, fcVars, imVars, evVars,
              sdVars, mbVars>>
taOthers == <<ctVars, spVars, sbVars, cbVars, tvVars, apVars, fcVars, imVars, evVars,
              sdVars, mbVars>>
cbOthers == <<ctVars, spVars, sbVars, taVars, tvVars, apVars, fcVars, imVars, evVars,
              sdVars, mbVars>>
tvOthers == <<ctVars, spVars, sbVars, taVars, cbVars, apVars, fcVars, imVars, evVars,
              sdVars, mbVars>>
apOthers == <<ctVars, spVars, sbVars, taVars, cbVars, tvVars, fcVars, imVars, evVars,
              sdVars, mbVars>>
fcOthers == <<ctVars, spVars, sbVars, taVars, cbVars, tvVars, apVars, imVars, evVars,
              sdVars, mbVars>>
imOthers == <<ctVars, spVars, sbVars, taVars, cbVars, tvVars, apVars, fcVars, evVars,
              sdVars, mbVars>>
evOthers == <<ctVars, spVars, sbVars, taVars, cbVars, tvVars, apVars, fcVars, imVars,
              sdVars, mbVars>>
sdOthers == <<ctVars, spVars, sbVars, taVars, cbVars, tvVars, apVars, fcVars, imVars,
              evVars, mbVars>>
mbOthers == <<ctVars, spVars, sbVars, taVars, cbVars, tvVars, apVars, fcVars, imVars,
              evVars, sdVars>>

(***************************************************************************)
(* Python list primitives used by the module.                              *)
(***************************************************************************)

\* `w in lst`
InSeq(w, s) == \E i \in 1..Len(s) : s[i] = w

\* lst.index(w): position of the first element equal to w
IndexOf(s, w) == CHOOSE i \in 1..Len(s) : s[i] = w /\ \A j \in 1..(i-1) : s[j] # w

\* a wrong list removal: every element equal to w goes
ListRemoveEvery(s, w) == SelectSeq(s, LAMBDA x : x # w)

\* lst.remove(w): the first element equal to w goes (w is in the list)
ListRemove(s, w) ==
    LET i == IndexOf(s, w) IN SubSeq(s, 1, i-1) \o SubSeq(s, i+1, Len(s))

(***************************************************************************)
(* CONTAINERS                                                              *)
(***************************************************************************)

\* the child wrappers the application hands to containers
Widgets == {"w1", "w2"}

\* most children one Box is given in a run
MaxChildren == 3

BoxContainers == {"box"}
SingleSlot == {"frame", "expander", "scrollarea"}
Containers == BoxContainers \cup SingleSlot

\* The Gtk parent of a child's native widget is a container's own Gtk widget
\* (named as the container), the gtk.Viewport that add_with_viewport puts
\* under the ScrolledWindow ("viewport"), or "none".

\* ContainerBase.add_ref
add_ref(lst, ref) == Append(lst, ref)

\* gtk.Container.remove(childw): Gtk detaches the widget only from its parent
NativeRemove(np, self, w) ==
    IF np[w] = self THEN [np EXCEPT ![w] = "none"] ELSE np

\* gtk.Box.pack_start(child_w): Gtk refuses a widget that has a parent
NativePackStart(np, self, w) ==
    IF np[w] = "none" THEN [np EXCEPT ![w] = self] ELSE np

\* gtk.Bin.add(child_w) (Frame, Expander): refused when the widget has a
\* parent or the bin already holds a child
NativeBinAdd(np, self, w) ==
    IF np[w] = "none" /\ ~(\E v \in Widgets : np[v] = self)
    THEN [np EXCEPT ![w] = self] ELSE np

\* gtk.ScrolledWindow.add_with_viewport(child_w): the child goes under a
\* viewport, and is refused when it has a parent or the viewport is taken
NativeAddWithViewport(np, w) ==
    IF np[w] = "none" /\ ~(\E v \in Widgets : np[v] = "viewport")
    THEN [np EXCEPT ![w] = "viewport"] ELSE np

\* A container call works on the container's list and the native tree.
CtState(lst, np, err) == [ch |-> lst, np |-> np, err |-> err]

\* a wrong remove: a widget that is no child is passed over in silence
remove_silent(self, st, w) ==
    IF ~InSeq(w, st.ch)
    THEN CtState(st.ch, st.np, st.err)
    ELSE CtState(ListRemove(st.ch, w), NativeRemove(st.np, self, w), st.err)

\* ContainerBase.remove
remove(self, st, w) ==
    IF ~InSeq(w, st.ch)
    THEN CtState(st.ch, st.np, "KeyError")
    ELSE CtState(ListRemove(st.ch, w), NativeRemove(st.np, self, w), st.err)

\* ContainerBase.remove_all: remove() on each element of a snapshot of the
\* list; an exception ends the loop
RECURSIVE remove_each(_, _, _)
remove_each(self, st, snapshot) ==
    IF snapshot = <<>> \/ st.err # "none" THEN st
    ELSE remove_each(self, remove(self, st, Head(snapshot)), Tail(snapshot))

remove_all(self, st) == remove_each(self, st, st.ch)

\* a wrong set_widget: the old child is kept and the new one appended
set_widget_append(self, st, child) ==
    CtState(add_ref(st.ch, child),
            IF self = "scrollarea" THEN NativeAddWithViewport(st.np, child)
            ELSE NativeBinAdd(st.np, self, child),
            st.err)

\* Frame.set_widget, Expander.set_widget, ScrollArea.set_widget
set_widget(self, st, child) ==
    LET s1 == remove_all(self, st)
    IN  IF s1.err # "none" THEN s1
        ELSE CtState(add_ref(s1.ch, child),
                     IF self = "scrollarea"
                     THEN NativeAddWithViewport(s1.np, child)
                     ELSE NativeBinAdd(s1.np, self, child),
                     s1.err)

\* Box.add_widget
add_widget(self, st, child) ==
    CtState(add_ref(st.ch, child), NativePackStart(st.np, self, child), st.err)

\* What the calls do to a plain ordered list: add appends, remove deletes the
\* first match, remove_all empties, set_widget leaves the one new child.
RECURSIVE PlainRemoveFirst(_, _)
PlainRemoveFirst(s, w) ==
    IF s = <<>> THEN <<>>
    ELSE IF Head(s) = w THEN Tail(s)
    ELSE <<Head(s)>> \o PlainRemoveFirst(Tail(s), w)

\* the state a call on container c starts from
CtEnter(c) == CtState(children[c], nparent, "none")

\* the state a call on container c leaves
CtLeave(c, st, op, w, ref) ==
    /\ children' = [children EXCEPT ![c] = st.ch]
    /\ nparent' = st.np
    /\ ctErr' = st.err
    /\ ctLast' = [op |-> op, c |-> c, w |-> w]
    /\ ctRef' = [ctRef EXCEPT ![c] = ref]
    /\ UNCHANGED ctOthers

CtInit ==
    /\ children = [c \in Containers |-> <<>>]
    /\ nparent = [w \in Widgets |-> "none"]
    /\ ctErr = "none"
    /\ ctLast = [op |-> "init", c |-> "box", w |-> "w1"]
    /\ ctRef = [c \in Containers |-> <<>>]

CtAddWidget(c, w) ==
    /\ c \in BoxContainers
    /\ Len(children[c]) < MaxChildren
    /\ CtLeave(c, add_widget(c, CtEnter(c), w), "add_widget", w,
               Append(ctRef[c], w))

CtSetWidget(c, w) ==
    /\ c \in SingleSlot
    /\ CtLeave(c, set_widget(c, CtEnter(c), w), "set_widget", w, <<w>>)

CtRemove(c, w) ==
    /\ c \in Containers
    /\ CtLeave(c, remove(c, CtEnter(c), w), "remove", w,
               PlainRemoveFirst(ctRef[c], w))

CtRemoveAll(c) ==
    /\ c \in Containers
    /\ CtLeave(c, remove_all(c, CtEnter(c)), "remove_all", "w1", <<>>)

CtNext ==
    \/ \E c \in Containers, w \in Widgets : CtAddWidget(c, w)
    \/ \E c \in Containers, w \in Widgets : CtSetWidget(c, w)
    \/ \E c \in Containers, w \in Widgets : CtRemove(c, w)
    \/ \E c \in Containers : CtRemoveAll(c)

(***************************************************************************)
(* SPLITTER                                                                *)
(***************************************************************************)

\* the child wrappers the application hands to the Splitter
SplitWidgets == {"w1", "w2", "w3"}

\* most nested panes one Splitter creates in a run
MaxPanes == 3

\* Pane 0 is the root gtk.Paned (self.widget); pane k >= 1 is the k-th pane
\* created by _get_pane in add_widget.
PaneIds == 0..MaxPanes

\* what a pane slot holds: nothing, a child's native widget, or a pane
EmptySlot == [w |-> "none", p |-> -1]
WidgetSlot(w) == [w |-> w, p |-> -1]
PaneSlot(k) == [w |-> "none", p |-> k]

SpState(lst, pn, s1, s2, par, err) ==
    [ch |-> lst, panes |-> pn, s1 |-> s1, s2 |-> s2, par |-> par, err |-> err]

\* gtk.Paned.pack1(child_w): the first slot takes the widget when it is free,
\* and the widget takes the pane as its parent when it has none
NativePack1(st, pane, w) ==
    IF st.s1[pane] # EmptySlot THEN st
    ELSE [st EXCEPT !.s1[pane] = WidgetSlot(w),
                    !.par[w] = IF st.par[w] = -1 THEN pane ELSE st.par[w]]

\* gtk.Paned.pack2(pane_w): the second slot takes the (new) pane when free
NativePack2(st, pane, k) ==
    IF st.s2[pane] # EmptySlot THEN st
    ELSE [st EXCEPT !.s2[pane] = PaneSlot(k)]

\* gtk.Container.remove(childw) on the root pane: Gtk detaches the widget
\* only when the root pane is its parent
NativePaneRemove(st, pane, w) ==
    IF st.par[w] # pane THEN st
    ELSE [st EXCEPT !.par[w] = -1,
                    !.s1[pane] = IF st.s1[pane] = WidgetSlot(w)
                                 THEN EmptySlot ELSE st.s1[pane]]

\* a wrong choice of the pane to extend: always the root pane
LastPaneRoot(pn) == 0

\* panes[-1], or self.widget when no pane was created yet
LastPane(pn) == IF Len(pn) > 0 THEN pn[Len(pn)] ELSE 0

\* a wrong add_widget: the test for the first child is off by one
sp_add_widget_off_by_one(st, child) ==
    LET s0 == [st EXCEPT !.ch = add_ref(st.ch, child)]
    IN  IF Len(s0.ch) <= 2 THEN NativePack1(s0, 0, child)
        ELSE LET last == IF Len(s0.panes) > 0 THEN s0.panes[Len(s0.panes)] ELSE 0
                 w    == Len(s0.panes) + 1
                 s1   == [s0 EXCEPT !.panes = Append(s0.panes, w)]
             IN  NativePack2(NativePack1(s1, w, child), last, w)

\* Splitter.add_widget
sp_add_widget(st, child) ==
    LET s0 == [st EXCEPT !.ch = add_ref(st.ch, child)]
    IN  IF Len(s0.ch) = 1 THEN NativePack1(s0, 0, child)
        ELSE LET last == LastPane(s0.panes)
                 w    == Len(s0.panes) + 1
                 s1   == [s0 EXCEPT !.panes = Append(s0.panes, w)]
             IN  NativePack2(NativePack1(s1, w, child), last, w)

\* ContainerBase.remove, as the Splitter inherits it
sp_remove(st, w) ==
    IF ~InSeq(w, st.ch) THEN [st EXCEPT !.err = "KeyError"]
    ELSE NativePaneRemove([st EXCEPT !.ch = ListRemove(st.ch, w)], 0, w)

SpEnter == SpState(spChildren, panes, slot1, slot2, spParent, "none")

SpLeave(st, removed) ==
    /\ spChildren' = st.ch
    /\ panes' = st.panes
    /\ slot1' = st.s1
    /\ slot2' = st.s2
    /\ spParent' = st.par
    /\ spErr' = st.err
    /\ spRemoved' = (spRemoved \/ removed)
    /\ UNCHANGED spOthers

SpInit ==
    /\ spChildren = <<>>
    /\ panes = <<>>
    /\ slot1 = [k \in PaneIds |-> EmptySlot]
    /\ slot2 = [k \in PaneIds |-> EmptySlot]
    /\ spParent = [w \in SplitWidgets |-> -1]
    /\ spErr = "none"
    /\ spRemoved = FALSE

SpAddWidget(w) ==
    /\ Len(panes) < MaxPanes
    /\ SpLeave(sp_add_widget(SpEnter, w), FALSE)

SpRemove(w) ==
    /\ w \in SplitWidgets
    /\ SpLeave(sp_remove(SpEnter, w), InSeq(w, spChildren))

SpNext ==
    \/ \E w \in SplitWidgets : SpAddWidget(w)
    \/ \E w \in SplitWidgets : SpRemove(w)

(***************************************************************************)
(* STATUSBAR                                                               *)
(***************************************************************************)

\* the texts the application shows
Messages == {"a", "b", "c"}

\* most timeout sources glib hands out in a run
MaxTimers == 10

SbState(stack, ctx, task, pending, nextid, removed) ==
    [stack |-> stack, ctx |-> ctx, task |-> task, pending |-> pending,
     nextid |-> nextid, removed |-> removed]

\* gtk.Statusbar.remove_all(context_id): raises on a context id of None
\* (set_message swallows it), else drops every message of the context
StatusRemoveAll(stack, ctx) == IF ctx = "None" THEN stack ELSE <<>>

\* gobject.source_remove(tag): the source goes if it is still scheduled
SourceRemove(st, tag) ==
    IF \E t \in st.pending : t.id = tag
    THEN [st EXCEPT !.pending = {t \in st.pending : t.id # tag},
                    !.removed = "removed"]
    ELSE [st EXCEPT !.removed = "stale"]

\* gobject.timeout_add(10000, self.widget.remove_all, self.ctx_id)
TimeoutAdd(st) ==
    [st EXCEPT !.pending = st.pending \cup {[id |-> st.nextid, ctx |-> st.ctx]},
               !.task = st.nextid,
               !.nextid = st.nextid + 1]

\* a wrong set_message: the pending auto-clear is not cancelled
set_message_no_cancel(st, msg_str) ==
    LET s1 == [st EXCEPT !.stack = StatusRemoveAll(st.stack, st.ctx)]
        s2 == [s1 EXCEPT !.ctx = "status", !.stack = Append(s1.stack, msg_str),
                         !.removed = "none"]
    IN  TimeoutAdd(s2)

\* StatusBar.set_message
set_message(st, msg_str) ==
    LET s1 == [st EXCEPT !.stack = StatusRemoveAll(st.stack, st.ctx)]
        s2 == [s1 EXCEPT !.ctx = "status", !.stack = Append(s1.stack, msg_str),
                         !.removed = "none"]
        s3 == IF s2.task # 0 THEN SourceRemove(s2, s2.task) ELSE s2
    IN  TimeoutAdd(s3)

SbEnter == SbState(sbStack, ctx_id, statustask, sbPending, sbNextId, sbRemoved)

SbLeave(st, op, msg) ==
    /\ sbStack' = st.stack
    /\ ctx_id' = st.ctx
    /\ statustask' = st.task
    /\ sbPending' = st.pending
    /\ sbNextId' = st.nextid
    /\ sbRemoved' = st.removed
    /\ sbLastMsg' = msg
    /\ sbOp' = op
    /\ UNCHANGED sbOthers

SbInit ==
    /\ sbStack = <<>>
    /\ ctx_id = "None"
    /\ statustask = 0
    /\ sbPending = {}
    /\ sbNextId = 1
    /\ sbRemoved = "none"
    /\ sbLastMsg = "none"
    /\ sbOp = "init"

SbSetMessage(m) ==
    /\ sbNextId <= MaxTimers
    /\ SbLeave(set_message(SbEnter, m), "set_message", m)

\* The 10 s timeout of source t expires: glib calls remove_all(ctx_id), and
\* drops the source because the callback returns None.
SbTimerExpires(t) ==
    /\ t \in sbPending
    /\ SbLeave([SbEnter EXCEPT !.stack = StatusRemoveAll(sbStack, t.ctx),
                               !.pending = sbPending \ {t}],
               "expire", sbLastMsg)

SbNext ==
    \/ \E m \in Messages : SbSetMessage(m)
    \/ \E t \in sbPending : SbTimerExpires(t)

(***************************************************************************)
(* TEXTAREA                                                                *)
(***************************************************************************)

\* the characters of the buffer: "nl" is the line break
Chars == {"x", "nl"}

\* longest text given to one append_text or set_text
MaxTextLen == 2

\* most characters appended between two clears
MaxText == 4

\* largest history limit given to set_limit
MaxLimit == 2

Texts == UNION {[1..n -> Chars] : n \in 0..MaxTextLen}

\* How gtk.TextBuffer.get_iter_at_line answers a line number past the last
\* line: Gtk 2 gives the start of the last line, Gtk 3.20 the end iterator.
PastLastLine == {"lastline", "end"}

\* the number of line breaks among the first n characters
BreaksUpTo(buf, n) == Cardinality({i \in 1..n : buf[i] = "nl"})

\* gtk.TextBuffer.get_line_count
get_line_count(buf) == BreaksUpTo(buf, Len(buf)) + 1

\* gtk.TextBuffer.get_iter_at_line(n), as a character offset
get_iter_at_line(buf, n, past) ==
    IF n <= 0 THEN 0
    ELSE IF n < get_line_count(buf)
    THEN CHOOSE i \in 1..Len(buf) : buf[i] = "nl" /\ BreaksUpTo(buf, i) = n
    ELSE IF past = "end" THEN Len(buf)
    ELSE IF get_line_count(buf) = 1 THEN 0
    ELSE CHOOSE i \in 1..Len(buf) :
             buf[i] = "nl" /\ BreaksUpTo(buf, i) = get_line_count(buf) - 1

\* gtk.TextBuffer.delete(start, end), on character offsets
buf_delete(buf, start, end) ==
    SubSeq(buf, 1, start) \o SubSeq(buf, end + 1, Len(buf))

\* a wrong housekeeping: one line too few is removed
history_housekeeping_short(buf, limit, past) ==
    LET numlines == get_line_count(buf)
    IN  IF numlines > limit
        THEN LET rmcount == numlines - limit - 1
             IN  buf_delete(buf, get_iter_at_line(buf, 0, past),
                                 get_iter_at_line(buf, rmcount, past))
        ELSE buf

\* TextArea._history_housekeeping
history_housekeeping(buf, limit, past) ==
    LET numlines == get_line_count(buf)
    IN  IF numlines > limit
        THEN LET rmcount == numlines - limit
             IN  buf_delete(buf, get_iter_at_line(buf, 0, past),
                                 get_iter_at_line(buf, rmcount, past))
        ELSE buf

TaState(buf, untrimmed, scroll) ==
    [buf |-> buf, untrimmed |-> untrimmed, scroll |-> scroll]

\* TextArea.append_text
append_text(buf, limit, text, autoscroll, past) ==
    LET inserted == buf \o text
        kept     == IF limit > 0 THEN history_housekeeping(inserted, limit, past)
                    ELSE inserted
    IN  TaState(kept, inserted, IF autoscroll THEN Len(kept) ELSE -1)

\* TextArea.clear
clear(buf) == buf_delete(buf, 0, Len(buf))

\* TextArea.set_text
set_text(buf, limit, text, past) ==
    append_text(clear(buf), limit, text, TRUE, past)

\* TextArea.set_limit
set_limit(buf, numlines, past) ==
    TaState(history_housekeeping(buf, numlines, past), buf, -1)

TaLeave(st, limit, all, zero, op) ==
    /\ taBuf' = st.buf
    /\ histlimit' = limit
    /\ taUntrimmed' = st.untrimmed
    /\ taScroll' = st.scroll
    /\ taAll' = all
    /\ taZero' = zero
    /\ taOp' = op
    /\ UNCHANGED taOthers

TaInit ==
    /\ taBuf = <<>>
    /\ histlimit = 0
    /\ taUntrimmed = <<>>
    /\ taScroll = -1
    /\ taAll = <<>>
    /\ taZero = TRUE
    /\ taOp = "init"

TaAppendText(text, autoscroll, past) ==
    /\ Len(taAll) + Len(text) <= MaxText
    /\ TaLeave(append_text(taBuf, histlimit, text, autoscroll, past),
               histlimit, taAll \o text, taZero, "append_text")

TaSetText(text, past) ==
    /\ text \in Texts
    /\ TaLeave(set_text(taBuf, histlimit, text, past),
               histlimit, text, histlimit = 0, "set_text")

TaClear ==
    /\ taOp # "clear"
    /\ TaLeave(TaState(clear(taBuf), taBuf, -1),
               histlimit, <<>>, histlimit = 0, "clear")

TaSetLimit(numlines, past) ==
    /\ numlines >= 0
    /\ TaLeave(set_limit(taBuf, numlines, past),
               numlines, taAll, taZero /\ numlines = 0, "set_limit")

TaNext ==
    \/ \E text \in Texts, autoscroll \in BOOLEAN, past \in PastLastLine :
           TaAppendText(text, autoscroll, past)
    \/ \E text \in Texts, past \in PastLastLine : TaSetText(text, past)
    \/ TaClear
    \/ \E numlines \in 0..MaxLimit, past \in PastLastLine :
           TaSetLimit(numlines, past)

(***************************************************************************)
(* COMBOBOX                                                                *)
(***************************************************************************)

\* Entry texts are Python strings: sequences of character codes.
Alphabet == {1, 2}

\* longest entry text
MaxStrLen == 2

\* most entries the list model is given in a run
MaxItems == 3

Strings == UNION {[1..n -> Alphabet] : n \in 0..MaxStrLen}

\* Python's `a > b` on strings: the first differing character decides, and a
\* proper prefix is the smaller string
RECURSIVE StrGreater(_, _)
StrGreater(a, b) ==
    IF a = <<>> THEN FALSE
    ELSE IF b = <<>> THEN TRUE
    ELSE IF Head(a) # Head(b) THEN Head(a) > Head(b)
    ELSE StrGreater(Tail(a), Tail(b))

\* gtk.ListStore.insert(position, row): position counts from 0, and a
\* position at or past the end appends
StoreInsert(model, position, row) ==
    IF position >= Len(model) THEN Append(model, row)
    ELSE SubSeq(model, 1, position) \o <<row>>
         \o SubSeq(model, position + 1, Len(model))

\* the indexes i of range(len(model)) with model[i][0] > text
GreaterAt(model, text) == {i \in 0..(Len(model) - 1) : StrGreater(model[i+1], text)}

Min(S) == CHOOSE x \in S : \A y \in S : x <= y

\* a wrong insert_alpha: the entry goes after the first greater one
insert_alpha_after(model, text) ==
    IF GreaterAt(model, text) # {}
    THEN StoreInsert(model, Min(GreaterAt(model, text)) + 1, text)
    ELSE StoreInsert(model, (IF Len(model) = 0 THEN 0 ELSE Len(model) - 1) + 1,
                     text)

\* ComboBox.insert_alpha: the loop returns at the first i with
\* model[i][0] > text; when it runs out, j is the last index (0 on an empty
\* model) and the entry goes to j+1
insert_alpha(model, text) ==
    IF GreaterAt(model, text) # {}
    THEN StoreInsert(model, Min(GreaterAt(model, text)), text)
    ELSE StoreInsert(model, (IF Len(model) = 0 THEN 0 ELSE Len(model) - 1) + 1,
                     text)

\* ComboBox.append_text
cb_append_text(model, text) == StoreInsert(model, Len(model), text)

\* ComboBox.delete_alpha: the first entry equal to text goes, if there is one
delete_alpha(model, text) ==
    IF InSeq(text, model) THEN ListRemove(model, text) ELSE model

CbLeave(model, inserted, only) ==
    /\ cbModel' = model
    /\ cbInserted' = inserted
    /\ cbOnlyAlpha' = only
    /\ UNCHANGED cbOthers

CbInit ==
    /\ cbModel = <<>>
    /\ cbInserted = <<>>
    /\ cbOnlyAlpha = TRUE

CbInsertAlpha(text) ==
    /\ Len(cbModel) < MaxItems
    /\ CbLeave(insert_alpha(cbModel, text),
               IF cbOnlyAlpha THEN Append(cbInserted, text) ELSE cbInserted,
               cbOnlyAlpha)

CbAppendText(text) ==
    /\ Len(cbModel) < MaxItems
    /\ CbLeave(cb_append_text(cbModel, text), <<>>, FALSE)

\* An emptied model starts a new run of insert_alpha calls.
CbDeleteAlpha(text) ==
    /\ text \in Strings
    /\ LET model == delete_alpha(cbModel, text)
           only  == (cbOnlyAlpha /\ model = cbModel) \/ model = <<>>
       IN  CbLeave(model,
                   IF only /\ model # <<>> THEN cbInserted ELSE <<>>,
                   only)

CbNext ==
    \/ \E text \in Strings : CbInsertAlpha(text)
    \/ \E text \in Strings : CbAppendText(text)
    \/ \E text \in Strings : CbDeleteAlpha(text)

(***************************************************************************)
(* TREEVIEW                                                                *)
(***************************************************************************)

\* Keys are one-character strings, so that key[0] is the key itself.
TopKeys == {"g"}
SubKeys == {"s"}
LeafKeys == {"x", "y"}

\* most rows a tree of Trees makes
MaxRows == 6

\* the column orders set_headers is given
ColumnOrders == {<<"Name", "Value">>, <<"Value", "Name">>}

\* A node of the nested mapping: a terminal node carries '__terminal__' and
\* one value per header; any other node is a mapping, held as its entries
\* [key, node] in iteration order.
NoVals == [Name |-> "", Value |-> ""]
TerminalNode(name, value) ==
    [term |-> TRUE, vals |-> [Name |-> name, Value |-> value], items |-> <<>>]
BranchNode(items) == [term |-> FALSE, vals |-> NoVals, items |-> items]
Entry(key, node) == [key |-> key, node |-> node]

TerminalNodes == {TerminalNode(name, "1") : name \in {"x", "n"}}

\* the mappings with at most two entries, keys distinct
PairsOf(entries) == {p \in entries \X entries : p[1].key # p[2].key}

Mappings(entries) ==
    {<<>>} \cup {<<e>> : e \in entries}
           \cup {<<p[1], p[2]>> : p \in PairsOf(entries)}

LeafEntries == {Entry(k, n) : k \in LeafKeys, n \in TerminalNodes}
LeafMappings == Mappings(LeafEntries)

SubEntries ==
    {Entry(k, BranchNode(m)) : k \in SubKeys, m \in LeafMappings}
        \cup {Entry("x", TerminalNode("x", "1"))}
SubMappings == Mappings(SubEntries)

TopEntries ==
    {Entry(k, BranchNode(m)) : k \in TopKeys, m \in SubMappings}
        \cup {Entry("y", TerminalNode("n", "1"))}

\* the tree_dict arguments of set_tree
Trees == Mappings(TopEntries)

\* a row of the gtk.TreeStore(object): its one value is a key (a str) or a
\* list of column values; parent is the parent row, 0 for None
KeyRow(key, parent) == [isstr |-> TRUE, s |-> key, l |-> <<>>, parent |-> parent]
ListRow(l, parent) == [isstr |-> FALSE, s |-> "", l |-> l, parent |-> parent]

RECURSIVE set_subtree(_, _, _, _, _)
RECURSIVE set_entries(_, _, _, _)

\* the loop `for key in node: self._set_subtree(level+1, model, item, ...)`
set_entries(rows, item, items, columns) ==
    IF items = <<>> THEN rows
    ELSE set_entries(set_subtree(rows, item, Head(items).key,
                                 Head(items).node, columns),
                     item, Tail(items), columns)

\* TreeView._set_subtree
set_subtree(rows, parent_item, key, node, columns) ==
    IF node.term
    THEN Append(rows, ListRow([i \in 1..Len(columns) |-> node.vals[columns[i]]],
                              parent_item))
    ELSE set_entries(Append(rows, KeyRow(key, 0)), Len(rows) + 1,
                     node.items, columns)

\* TreeView.set_tree: a new store, filled from the top-level entries
set_tree(tree_dict, columns) == set_entries(<<>>, 0, tree_dict, columns)

\* TreeView._cb_redirect with the cursor on row i: the payloads fired and the
\* exception raised
cb_redirect(rows, i) ==
    LET child  == rows[i]
        parent == child.parent
    IN  IF parent = 0 THEN [events |-> <<>>, err |-> "none"]
        ELSE IF ~child.isstr /\ child.l = <<>>
        THEN [events |-> <<>>, err |-> "IndexError"]
        ELSE [events |-> <<[top  |-> rows[parent].s,
                            item |-> IF child.isstr THEN child.s
                                     ELSE child.l[1]]>>,
              err |-> "none"]

TvLeave(columns, rows, tree, cursor, res, op) ==
    /\ tvColumns' = columns
    /\ tvRows' = rows
    /\ tvTree' = tree
    /\ tvCursor' = cursor
    /\ tvEvents' = res.events
    /\ tvErr' = res.err
    /\ tvOp' = op
    /\ UNCHANGED tvOthers

Quiet == [events |-> <<>>, err |-> "none"]

TvInit ==
    /\ tvColumns = <<>>
    /\ tvRows = <<>>
    /\ tvTree = <<>>
    /\ tvCursor = 0
    /\ tvEvents = <<>>
    /\ tvErr = "none"
    /\ tvOp = "init"

\* TreeView.set_headers: the columns are declared and an empty store is set
TvSetHeaders(columns) ==
    /\ columns \in ColumnOrders
    /\ TvLeave(columns, <<>>, <<>>, 0, Quiet, "set_headers")

TvSetTree(tree_dict) ==
    /\ tree_dict \in Trees
    /\ TvLeave(tvColumns, set_tree(tree_dict, tvColumns), tree_dict, 0, Quiet,
               "set_tree")

\* TreeView.clear
TvClear ==
    /\ tvRows # <<>>
    /\ TvLeave(tvColumns, <<>>, <<>>, 0, Quiet, "clear")

\* the user moves the cursor to row i: Gtk emits cursor-changed
TvCursorChanged(i) ==
    /\ i <= Len(tvRows)
    /\ TvLeave(tvColumns, tvRows, tvTree, i, cb_redirect(tvRows, i), "cursor")

TvNext ==
    \/ \E columns \in ColumnOrders : TvSetHeaders(columns)
    \/ \E tree_dict \in Trees : TvSetTree(tree_dict)
    \/ TvClear
    \/ \E i \in 1..MaxRows : TvCursorChanged(i)

(***************************************************************************)
(* APPLICATION AND TOPLEVEL                                                *)
(***************************************************************************)

\* the TopLevel objects of a run, in construction order
TopLevels == <<"t1", "t2">>

\* most ids add_window generates in a run
MaxAuto == 2

\* A window id is a Python str, held as its characters; None is apart.
None == <<"None">>
Digit(d) == <<"0", "1", "2", "3", "4", "5", "6", "7", "8", "9">>[d + 1]

\* '%d' % n
RECURSIVE Dec(_)
Dec(n) == IF n < 10 THEN <<Digit(n)>> ELSE Dec(n \div 10) \o <<Digit(n % 10)>>

\* 'win%d' % n
WinId(n) == <<"w", "i", "n">> \o Dec(n)

\* the ids callers pass to add_window
CallerIds == {<<"w", "i", "n", "0">>, <<"m">>}

\* dict[key] = value
DictSet(d, key, value) ==
    [k \in DOMAIN d \cup {key} |-> IF k = key THEN value ELSE d[k]]

\* the Application and the stamps on the windows
ApState(dict, cnt, wid, auto) ==
    [dict |-> dict, cnt |-> cnt, wid |-> wid, auto |-> auto]

\* a wrong add_window: a window registered again gives up its earlier entry
add_window_moving(ap, window, wid) ==
    LET id   == IF wid = None THEN WinId(ap.cnt) ELSE wid
        kept == [k \in {j \in DOMAIN ap.dict : ap.dict[j] # window} |->
                     ap.dict[k]]
    IN  ApState(DictSet(kept, id, window),
                IF wid = None THEN ap.cnt + 1 ELSE ap.cnt,
                [ap.wid EXCEPT ![window] = id],
                IF wid = None THEN Append(ap.auto, id) ELSE ap.auto)

\* a wrong add_window: the counter stays
add_window_same_counter(ap, window, wid) ==
    LET id == IF wid = None THEN WinId(ap.cnt) ELSE wid
    IN  ApState(DictSet(ap.dict, id, window), ap.cnt,
                [ap.wid EXCEPT ![window] = id],
                IF wid = None THEN Append(ap.auto, id) ELSE ap.auto)

\* Application.add_window
add_window(ap, window, wid) ==
    LET id == IF wid = None THEN WinId(ap.cnt) ELSE wid
    IN  ApState(DictSet(ap.dict, id, window),
                IF wid = None THEN ap.cnt + 1 ELSE ap.cnt,
                [ap.wid EXCEPT ![window] = id],
                IF wid = None THEN Append(ap.auto, id) ELSE ap.auto)

\* Application.get_window: the window, or a KeyError
get_window(dict, wid) == IF wid \in DOMAIN dict THEN dict[wid] ELSE "KeyError"

\* Application.has_window
has_window(dict, wid) == wid \in DOMAIN dict

\* Application.get_wids
get_wids(dict) == DOMAIN dict

\* One TopLevel during a close: whether its native window is inside its
\* destroy emission, whether it was destroyed, how often `closed` was fired,
\* how often widget.destroy() was called and how often `destroy` was emitted.
TlState(inDestruction, destroyed, closed, requests, emits) ==
    [inDestruction |-> inDestruction, destroyed |-> destroyed,
     closed |-> closed, requests |-> requests, emits |-> emits]

RECURSIVE tl_close(_)
RECURSIVE tl_quit(_)
RECURSIVE NativeDestroy(_)

\* gtk.Widget.destroy(): nothing when the widget is inside its destroy
\* emission; else `destroy` is emitted, which runs the connected
\* TopLevel._quit, that is self.close()
NativeDestroy(tl) ==
    LET asked == [tl EXCEPT !.requests = @ + 1]
    IN  IF tl.inDestruction THEN asked
        ELSE LET handled == tl_quit([asked EXCEPT !.inDestruction = TRUE,
                                                  !.emits = @ + 1])
             IN  [handled EXCEPT !.inDestruction = FALSE, !.destroyed = TRUE]

\* TopLevel.close: destroy the native window, then make_callback('closed')
tl_close(tl) == [NativeDestroy(tl) EXCEPT !.closed = @ + 1]

\* TopLevel._quit, the handler of `destroy`
tl_quit(tl) == tl_close(tl)

\* TopLevel._closeEvent, the handler of `delete_event`
tl_closeEvent(tl) == tl_close(tl)

\* a delete event from the window manager: the handler returns None, so Gtk
\* goes on to destroy the window
DeleteEvent(tl) == NativeDestroy(tl_closeEvent(tl))

CloseKinds == {"close", "delete_event", "destroy"}

\* the three ways a TopLevel is closed
CloseBy(how, tl) ==
    CASE how = "close" -> tl_close(tl)
      [] how = "delete_event" -> DeleteEvent(tl)
      [] how = "destroy" -> NativeDestroy(tl)

ApOp(op, w, tl) ==
    [op |-> op, w |-> w, closed |-> tl.closed, requests |-> tl.requests,
     emits |-> tl.emits]

ApLeave(built, destroyed, ap, op) ==
    /\ tlBuilt' = built
    /\ tlDestroyed' = destroyed
    /\ window_dict' = ap.dict
    /\ wincnt' = ap.cnt
    /\ tlWid' = ap.wid
    /\ apAuto' = ap.auto
    /\ apOp' = op
    /\ UNCHANGED apOthers

ApEnter == ApState(window_dict, wincnt, tlWid, apAuto)

\* a TopLevel outside a close
Idle(w) == TlState(FALSE, w \in tlDestroyed, 0, 0, 0)

ApInit ==
    /\ tlBuilt = 0
    /\ tlWid = [w \in {TopLevels[i] : i \in 1..Len(TopLevels)} |-> None]
    /\ tlDestroyed = {}
    /\ window_dict = <<>>
    /\ wincnt = 0
    /\ apAuto = <<>>
    /\ apOp = ApOp("init", "none", TlState(FALSE, FALSE, 0, 0, 0))

\* TopLevel(title): a window the application has not registered
ApTopLevel ==
    /\ tlBuilt < Len(TopLevels)
    /\ ApLeave(tlBuilt + 1, tlDestroyed, ApEnter,
               ApOp("TopLevel", TopLevels[tlBuilt + 1],
                    TlState(FALSE, FALSE, 0, 0, 0)))

ApAddWindow(i, wid) ==
    /\ i <= tlBuilt
    /\ wid = None => wincnt < MaxAuto
    /\ ApLeave(tlBuilt, tlDestroyed, add_window(ApEnter, TopLevels[i], wid),
               ApOp("add_window", TopLevels[i], Idle(TopLevels[i])))

\* Application.make_window
ApMakeWindow ==
    /\ tlBuilt < Len(TopLevels)
    /\ wincnt < MaxAuto
    /\ ApLeave(tlBuilt + 1, tlDestroyed,
               add_window(ApEnter, TopLevels[tlBuilt + 1], None),
               ApOp("make_window", TopLevels[tlBuilt + 1],
                    TlState(FALSE, FALSE, 0, 0, 0)))

\* a window is closed: by close(), by a delete event or by a native destroy
ApClose(i, how) ==
    /\ i <= tlBuilt
    /\ LET w  == TopLevels[i]
           tl == CloseBy(how, Idle(w))
       IN  ApLeave(tlBuilt, IF tl.destroyed THEN tlDestroyed \cup {w}
                            ELSE tlDestroyed,
                   ApEnter, ApOp(how, w, tl))

ApNext ==
    \/ ApTopLevel
    \/ \E i \in 1..Len(TopLevels), wid \in CallerIds \cup {None} :
           ApAddWindow(i, wid)
    \/ ApMakeWindow
    \/ \E i \in 1..Len(TopLevels), how \in CloseKinds : ApClose(i, how)

(***************************************************************************)
(* CONSTRUCTORS AND make_widget                                            *)
(***************************************************************************)

\* most widgets constructed in a run
MaxBuilt == 2

\* the orientation arguments constructors are given
Orientations == {"horizontal", "vertical", "diagonal", "Horizontal"}

\* the classes whose constructor takes an orientation
OrientedClasses == {"Box", "Slider", "ScrollBar", "Splitter", "Toolbar"}

\* the wtype arguments make_widget is given
Wtypes ==
    {"label", "llabel", "entry", "entryset", "combobox", "spinbutton",
     "spinfloat", "vbox", "hbox", "hscale", "vscale", "checkbutton",
     "radiobutton", "togglebutton", "button", "spacer", "textarea",
     "toolbar", "menubar", "slider", "Label", ""}

\* a constructed wrapper: its class and the native widget it wraps
Made(cls, native) == [cls |-> cls, native |-> native, err |-> "none"]
Raised(err) == [cls |-> "none", native |-> "none", err |-> err]

\* Box.__init__
Box(orientation) ==
    IF orientation = "horizontal" THEN Made("Box", "gtk.HBox")
    ELSE Made("Box", "gtk.VBox")

\* VBox.__init__ and HBox.__init__
VBox == Box("vertical")
HBox == Box("horizontal")

\* Slider.__init__
Slider(orientation) ==
    IF orientation = "horizontal" THEN Made("Slider", "GtkHelp.HScale")
    ELSE Made("Slider", "GtkHelp.VScale")

\* ScrollBar.__init__
ScrollBar(orientation) ==
    IF orientation = "horizontal" THEN Made("ScrollBar", "gtk.HScrollbar")
    ELSE Made("ScrollBar", "gtk.VScrollbar")

\* Splitter.__init__ with Splitter._get_pane
Splitter(orientation) ==
    IF orientation = "horizontal" THEN Made("Splitter", "gtk.HPaned")
    ELSE Made("Splitter", "gtk.VPaned")

\* Toolbar.__init__
Toolbar(orientation) ==
    IF orientation = "horizontal"
    THEN Made("Toolbar", "gtk.Toolbar ORIENTATION_HORIZONTAL")
    ELSE Made("Toolbar", "gtk.Toolbar ORIENTATION_VERTICAL")

\* the constructor of an oriented class
Construct(cls, orientation) ==
    CASE cls = "Box" -> Box(orientation)
      [] cls = "Slider" -> Slider(orientation)
      [] cls = "ScrollBar" -> ScrollBar(orientation)
      [] cls = "Splitter" -> Splitter(orientation)
      [] cls = "Toolbar" -> Toolbar(orientation)

\* make_widget
make_widget(wtype) ==
    CASE wtype = "label" -> Made("Label", "gtk.Label 0.95 0.5")
      [] wtype = "llabel" -> Made("Label", "gtk.Label 0.05 0.95")
      [] wtype = "entry" -> Made("TextEntry", "gtk.Entry")
      [] wtype = "entryset" -> Made("TextEntrySet", "gtk.HBox")
      [] wtype = "combobox" -> Made("ComboBox", "GtkHelp.ComboBox")
      [] wtype = "spinbutton" -> Made("SpinBox", "GtkHelp.SpinButton int")
      [] wtype = "spinfloat" -> Made("SpinBox", "GtkHelp.SpinButton float")
      [] wtype = "vbox" -> VBox
      [] wtype = "hbox" -> HBox
      [] wtype = "hscale" -> Slider("horizontal")
      [] wtype = "vscale" -> Slider("vertical")
      [] wtype = "checkbutton" -> Made("CheckBox", "GtkHelp.CheckButton")
      [] wtype = "radiobutton" -> Made("RadioButton", "GtkHelp.RadioButton")
      [] wtype = "togglebutton" -> Made("ToggleButton", "GtkHelp.ToggleButton")
      [] wtype = "button" -> Made("Button", "gtk.Button")
      [] wtype = "spacer" -> Made("Label", "gtk.Label")
      [] wtype = "textarea" -> Made("TextArea", "gtk.TextView")
      [] wtype = "toolbar" -> Toolbar("horizontal")
      [] wtype = "menubar" -> Made("Menubar", "gtk.MenuBar")
      [] OTHER -> Raised("ValueError")

\* a construction that raises gives the caller no widget
FcLeave(res, fn, arg) ==
    /\ fcBuilt' = IF res.err = "none"
                  THEN Append(fcBuilt, [cls |-> res.cls, native |-> res.native])
                  ELSE fcBuilt
    /\ fcErr' = res.err
    /\ fcOp' = [fn |-> fn, arg |-> arg]
    /\ UNCHANGED fcOthers

FcInit ==
    /\ fcBuilt = <<>>
    /\ fcErr = "none"
    /\ fcOp = [fn |-> "none", arg |-> ""]

FcMakeWidget(wtype) ==
    /\ Len(fcBuilt) < MaxBuilt
    /\ FcLeave(make_widget(wtype), "make_widget", wtype)

FcConstruct(cls, orientation) ==
    /\ Len(fcBuilt) < MaxBuilt
    /\ FcLeave(Construct(cls, orientation), cls, orientation)

FcNext ==
    \/ \E wtype \in Wtypes : FcMakeWidget(wtype)
    \/ \E cls \in OrientedClasses, orientation \in Orientations :
           FcConstruct(cls, orientation)

(***************************************************************************)
(* IMAGE                                                                   *)
(***************************************************************************)

\* most button events delivered in a run
MaxEvents == 4

Buttons == {1, 2, 3}

\* the event types Gdk delivers with button-press-event
PressTypes == {"BUTTON_PRESS", "2BUTTON_PRESS"}

\* the Image in a handler: the latch, the menu, and what the handler did
ImState(action, menu, fired, popups) ==
    [action |-> action, menu |-> menu, fired |-> fired, popups |-> popups]

\* Image._cb_redirect1, the handler of button-press-event
cb_redirect1(im, type, button) ==
    IF type = "BUTTON_PRESS"
    THEN IF button = 1 THEN ImState("click", im.menu, im.fired, im.popups)
         ELSE IF button = 3 /\ im.menu # "None"
         THEN ImState(im.action, im.menu, im.fired, im.popups + 1)
         ELSE im
    ELSE im

\* a wrong _cb_redirect2: the latch stays set
cb_redirect2_latched(im, type, button) ==
    IF type = "BUTTON_RELEASE" /\ button = 1 /\ im.action = "click"
    THEN ImState(im.action, im.menu, im.fired + 1, im.popups)
    ELSE im

\* Image._cb_redirect2, the handler of button-release-event
cb_redirect2(im, type, button) ==
    IF type = "BUTTON_RELEASE" /\ button = 1 /\ im.action = "click"
    THEN ImState("None", im.menu, im.fired + 1, im.popups)
    ELSE im

ImEnter == ImState(imAction, imMenu, 0, 0)

ImLeave(im, sig, type, button) ==
    /\ imBuilt' = TRUE
    /\ imAction' = im.action
    /\ imMenu' = im.menu
    /\ imEvents' = IF sig = "init" THEN 0 ELSE imEvents + 1
    /\ imPresses' = IF sig = "press" /\ type = "BUTTON_PRESS" /\ button = 1
                    THEN imPresses + 1 ELSE imPresses
    /\ imActivated' = imActivated + im.fired
    /\ imPending' = IF im.fired > 0 THEN FALSE
                    ELSE IF sig = "press" /\ type = "BUTTON_PRESS" /\ button = 1
                    THEN TRUE ELSE imPending
    /\ imLast' = [sig |-> sig, type |-> type, button |-> button,
                  fired |-> im.fired, popups |-> im.popups,
                  pending |-> imPending]
    /\ UNCHANGED imOthers

ImInit ==
    /\ imBuilt = FALSE
    /\ imAction = "None"
    /\ imMenu = "None"
    /\ imEvents = 0
    /\ imPresses = 0
    /\ imActivated = 0
    /\ imPending = FALSE
    /\ imLast = [sig |-> "none", type |-> "none", button |-> 0, fired |-> 0,
                 popups |-> 0, pending |-> FALSE]

\* Image.__init__
ImConstruct(menu) ==
    /\ ~imBuilt
    /\ ImLeave(ImState("None", menu, 0, 0), "init", "none", 0)

\* a button goes down over the image
ImButtonPress(type, button) ==
    /\ imBuilt
    /\ imEvents < MaxEvents
    /\ ImLeave(cb_redirect1(ImEnter, type, button), "press", type, button)

\* a button comes up over the image
ImButtonRelease(button) ==
    /\ imBuilt
    /\ imEvents < MaxEvents
    /\ ImLeave(cb_redirect2(ImEnter, "BUTTON_RELEASE", button), "release",
               "BUTTON_RELEASE", button)

ImNext ==
    \/ \E menu \in {"None", "menu"} : ImConstruct(menu)
    \/ \E type \in PressTypes, button \in Buttons : ImButtonPress(type, button)
    \/ \E button \in Buttons : ImButtonRelease(button)

(***************************************************************************)
(* CONTROLS AND THEIR EVENTS                                               *)
(***************************************************************************)

\* the event names the layer exposes, and a name no control has
EventNames ==
    {"activated", "value-changed", "selected", "page-switch", "configure",
     "closed", "clicked"}

\* constructor statements: widget.connect(sig, redirect), where the redirect
\* fires `name` through make_callback, and self.enable_callback(name)
Connect(sig, name) == [do |-> "connect", sig |-> sig, name |-> name]
Enable(name) == [do |-> "enable", sig |-> "", name |-> name]

ControlClasses ==
    {"TextEntry", "TextEntrySet", "Label", "Button", "ComboBox", "SpinBox",
     "Slider", "ScrollBar", "CheckBox", "ToggleButton", "RadioButton",
     "Image", "TreeView", "TabWidget", "StackWidget", "ScrollArea",
     "MenuAction", "TopLevel", "TextArea", "ProgressBar"}

\* the connect and enable_callback statements of every constructor, in
\* source order
CtorSteps(cls) ==
    CASE cls = "TextEntry" ->
             <<Connect("activate", "activated"), Enable("activated")>>
      [] cls = "TextEntrySet" ->
             <<Connect("activate", "activated"),
               Connect("clicked", "activated"), Enable("activated")>>
      [] cls = "Label" ->
             <<Connect("button_press_event", "activated"),
               Connect("button_press_event", "activated"),
               Enable("activated")>>
      [] cls = "Button" ->
             <<Connect("clicked", "activated"), Enable("activated")>>
      [] cls = "ComboBox" ->
             <<Connect("changed", "activated"), Enable("activated")>>
      [] cls = "SpinBox" ->
             <<Connect("value-changed", "value-changed"),
               Enable("value-changed")>>
      [] cls = "Slider" ->
             <<Connect("value-changed", "value-changed"),
               Enable("value-changed")>>
      [] cls = "ScrollBar" ->
             <<Connect("value-changed", "activated"), Enable("activated")>>
      [] cls = "CheckBox" ->
             <<Connect("toggled", "activated"), Enable("activated")>>
      [] cls = "ToggleButton" ->
             <<Connect("toggled", "activated"), Enable("activated")>>
      [] cls = "RadioButton" ->
             <<Connect("toggled", "activated"), Enable("activated")>>
      [] cls = "Image" ->
             <<Connect("button-release-event", "activated"),
               Enable("activated")>>
      [] cls = "TreeView" ->
             <<Connect("cursor-changed", "selected"), Enable("selected")>>
      [] cls \in {"TabWidget", "StackWidget"} ->
             <<Connect("switch-page", "page-switch"), Enable("page-switch")>>
      [] cls = "ScrollArea" ->
             <<Enable("configure"), Connect("size_allocate", "configure")>>
      [] cls = "MenuAction" ->
             <<Connect("activate", "activated"), Enable("activated")>>
      [] cls = "TopLevel" ->
             <<Connect("destroy", "closed"), Connect("delete_event", "closed"),
               Enable("closed")>>
      [] OTHER -> <<>>

\* a control: its connected handlers and its enabled event names
Control(handlers, enabled, err) ==
    [handlers |-> handlers, enabled |-> enabled, err |-> err]

\* Callbacks.enable_callback
enable_callback(ctl, name) ==
    Control(ctl.handlers, ctl.enabled \cup {name}, ctl.err)

\* Callbacks.make_callback: a name that was not enabled is an error
make_callback(ctl, name) ==
    IF name \in ctl.enabled THEN ctl
    ELSE Control(ctl.handlers, ctl.enabled, "UnknownEventError")

\* Callbacks.add_callback: a name that was not enabled is an error
add_callback(ctl, name) ==
    IF name \in ctl.enabled THEN ctl
    ELSE Control(ctl.handlers, ctl.enabled, "UnknownEventError")

\* a wrong constructor: the enable_callback statements are left out
RECURSIVE RunStepsNoEnable(_, _)
RunStepsNoEnable(ctl, steps) ==
    IF steps = <<>> THEN ctl
    ELSE LET st == Head(steps)
         IN  RunStepsNoEnable(
                 IF st.do = "connect"
                 THEN Control(ctl.handlers \cup {[sig |-> st.sig,
                                                  name |-> st.name]},
                              ctl.enabled, ctl.err)
                 ELSE ctl,
                 Tail(steps))

\* a constructor body: its statements run in order
RECURSIVE RunSteps(_, _)
RunSteps(ctl, steps) ==
    IF steps = <<>> THEN ctl
    ELSE LET st == Head(steps)
         IN  RunSteps(
                 IF st.do = "connect"
                 THEN Control(ctl.handlers \cup {[sig |-> st.sig,
                                                  name |-> st.name]},
                              ctl.enabled, ctl.err)
                 ELSE enable_callback(ctl, st.name),
                 Tail(steps))

EvEnter == Control(evHandlers, evEnabled, "none")

EvLeave(cls, ctl, listeners, op, arg) ==
    /\ evCls' = cls
    /\ evHandlers' = ctl.handlers
    /\ evEnabled' = ctl.enabled
    /\ evListeners' = listeners
    /\ evErr' = ctl.err
    /\ evOp' = [op |-> op, arg |-> arg]
    /\ UNCHANGED evOthers

EvInit ==
    /\ evCls = "none"
    /\ evHandlers = {}
    /\ evEnabled = {}
    /\ evListeners = {}
    /\ evErr = "none"
    /\ evOp = [op |-> "none", arg |-> ""]

\* a control is constructed
EvConstruct(cls) ==
    /\ cls \in ControlClasses
    /\ EvLeave(cls, RunSteps(Control({}, {}, "none"), CtorSteps(cls)), {},
               "construct", cls)

\* Gtk emits a connected signal and the redirect fires its event
EvNativeSignal(h) ==
    /\ h \in evHandlers
    /\ EvLeave(evCls, make_callback(EvEnter, h.name), evListeners,
               "signal", h.sig)

\* the application registers a listener on the control
EvAddCallback(name) ==
    /\ evCls # "none"
    /\ LET ctl == add_callback(EvEnter, name)
       IN  EvLeave(evCls, ctl,
                   IF ctl.err = "none" THEN evListeners \cup {name}
                   ELSE evListeners,
                   "add_callback", name)

EvSignals ==
    {[sig |-> st.sig, name |-> st.name] :
         st \in UNION {{CtorSteps(cls)[i] : i \in 1..Len(CtorSteps(cls))} :
                           cls \in ControlClasses}}

EvNext ==
    \/ \E cls \in ControlClasses : EvConstruct(cls)
    \/ \E h \in EvSignals : EvNativeSignal(h)
    \/ \E name \in EventNames : EvAddCallback(name)

(***************************************************************************)
(* SAVEDIALOG                                                              *)
(***************************************************************************)

\* Filters and paths are Python str, held as their characters.
Png == <<"p", "n", "g">>
Avi == <<"a", "v", "i">>
Npz == <<"n", "p", "z">>
Dot == <<".">>

\* the selectedfilter arguments of the constructor
Filters ==
    {None, <<"*", ".">> \o Png, <<"*", ".">> \o Avi, <<"*", ".">> \o Npz,
     <<"*", ".", "t", "x", "t">>, <<"*", ".">> \o Npz \o <<" ", "*", ".">> \o Avi,
     <<"*", ".", "P", "N", "G">>, <<"*">>}

\* the file names the user chooses
Stems == {<<"a">>, <<"b">>}
Endings ==
    {<<>>, Dot \o Png, Dot \o Avi, Dot \o Npz, <<".", "t", "x", "t">>,
     <<"*", ".", "t", "x", "t">>, Png}
Filenames == {s \o e : s \in Stems, e \in Endings}

\* the responses gtk.Dialog.run() returns for this dialog
Responses == {"RESPONSE_OK", "RESPONSE_CANCEL", "RESPONSE_DELETE_EVENT"}

\* `sub in s`
Contains(sub, s) ==
    \E i \in 1..(Len(s) - Len(sub) + 1) :
        SubSeq(s, i, i + Len(sub) - 1) = sub

\* s.endswith(suffix)
EndsWith(s, suffix) ==
    /\ Len(suffix) <= Len(s)
    /\ SubSeq(s, Len(s) - Len(suffix) + 1, Len(s)) = suffix

\* SaveDialog._add_filter: what self.selectedfilter is left as
add_filter(selectedfilter) ==
    IF Contains(Png, selectedfilter) THEN Dot \o Png
    ELSE IF Contains(Avi, selectedfilter) THEN Dot \o Avi
    ELSE IF Contains(Npz, selectedfilter) THEN Dot \o Npz
    ELSE selectedfilter

\* SaveDialog.__init__: self.selectedfilter
sd_init(selectedfilter) ==
    IF selectedfilter # None THEN add_filter(selectedfilter)
    ELSE selectedfilter

\* SaveDialog.get_path: the value returned and whether the dialog is destroyed
get_path(selected, response, filename) ==
    IF response = "RESPONSE_OK"
    THEN [path |-> IF selected # None /\ ~EndsWith(filename, selected)
                   THEN filename \o selected ELSE filename,
          destroyed |-> TRUE]
    ELSE IF response = "RESPONSE_CANCEL"
    THEN [path |-> None, destroyed |-> TRUE]
    ELSE [path |-> None, destroyed |-> FALSE]

SdLeave(filter, selected, response, chosen, result, destroyed) ==
    /\ sdFilter' = filter
    /\ sdSelected' = selected
    /\ sdResponse' = response
    /\ sdChosen' = chosen
    /\ sdResult' = result
    /\ sdDestroyed' = destroyed
    /\ UNCHANGED sdOthers

SdInit ==
    /\ sdFilter = None
    /\ sdSelected = None
    /\ sdResponse = "none"
    /\ sdChosen = <<>>
    /\ sdResult = None
    /\ sdDestroyed = FALSE

\* SaveDialog(selectedfilter=...)
SdConstruct(selectedfilter) ==
    /\ selectedfilter \in Filters
    /\ SdLeave(selectedfilter, sd_init(selectedfilter), "none", <<>>, None,
               FALSE)

\* get_path() on a dialog that was not destroyed: the user answers it
SdGetPath(response, filename) ==
    /\ ~sdDestroyed
    /\ LET res == get_path(sdSelected, response, filename)
       IN  SdLeave(sdFilter, sdSelected, response,
                   IF response = "RESPONSE_OK" THEN filename ELSE <<>>,
                   res.path, res.destroyed)

SdNext ==
    \/ \E selectedfilter \in Filters : SdConstruct(selectedfilter)
    \/ \E response \in Responses, filename \in Filenames :
           SdGetPath(response, filename)

(***************************************************************************)
(* MENUBAR                                                                 *)
(***************************************************************************)

\* most Menus one Menubar creates in a run
MaxMenus == 4

\* Menu wrappers the application made itself and hands to add_widget
OwnMenus == {0}

\* native widgets: the gtk.Menu of the n-th Menu, and the gtk.MenuItem
\* add_name makes for it
MenuW(n) == [kind |-> "gtk.Menu", n |-> n]
ItemW(n) == [kind |-> "gtk.MenuItem", n |-> n]

\* the Menubar in a call
MbState(ch, bar, sub, made, err) ==
    [ch |-> ch, bar |-> bar, sub |-> sub, made |-> made, err |-> err]

\* gtk.Container.remove(childw) on the gtk.MenuBar: Gtk detaches the widget
\* only when it is a child of the bar
NativeBarRemove(bar, childw) == SelectSeq(bar, LAMBDA x : x # childw)

\* Menubar.add_name: a new Menu is listed as a child; its gtk.Menu becomes
\* the submenu of a new gtk.MenuItem, and the item goes into the bar
mb_add_name(st) ==
    LET child == st.made + 1
    IN  MbState(add_ref(st.ch, child), Append(st.bar, ItemW(child)),
                st.sub \cup {[item |-> ItemW(child), menu |-> MenuW(child)]},
                child, st.err)

\* Menubar.add_widget: gtk.MenuBar has no addMenu, which raises before the
\* child is listed
mb_add_widget(st, child) == [st EXCEPT !.err = "AttributeError"]

\* ContainerBase.remove, as the Menubar inherits it
mb_remove(st, w) ==
    IF ~InSeq(w, st.ch) THEN [st EXCEPT !.err = "KeyError"]
    ELSE [st EXCEPT !.ch = ListRemove(st.ch, w),
                    !.bar = NativeBarRemove(st.bar, MenuW(w))]

MbEnter == MbState(mbChildren, mbBar, mbSubmenu, mbMade, "none")

MbLeave(st, op, arg) ==
    /\ mbChildren' = st.ch
    /\ mbBar' = st.bar
    /\ mbSubmenu' = st.sub
    /\ mbMade' = st.made
    /\ mbErr' = st.err
    /\ mbOp' = [op |-> op, arg |-> arg]
    /\ UNCHANGED mbOthers

MbInit ==
    /\ mbChildren = <<>>
    /\ mbBar = <<>>
    /\ mbSubmenu = {}
    /\ mbMade = 0
    /\ mbErr = "none"
    /\ mbOp = [op |-> "init", arg |-> 0]

MbAddName ==
    /\ mbMade < MaxMenus
    /\ MbLeave(mb_add_name(MbEnter), "add_name", mbMade + 1)

MbAddWidget(child) ==
    /\ child \in OwnMenus
    /\ MbLeave(mb_add_widget(MbEnter, child), "add_widget", child)

MbRemove(w) ==
    /\ w <= mbMade
    /\ MbLeave(mb_remove(MbEnter, w), "remove", w)

MbNext ==
    \/ MbAddName
    \/ \E child \in OwnMenus : MbAddWidget(child)
    \/ \E w \in 0..MaxMenus : MbRemove(w)

(***************************************************************************)
(* SPECIFICATIONS                                                          *)
(***************************************************************************)

Init ==
    /\ CtInit /\ SpInit /\ SbInit /\ TaInit /\ CbInit /\ TvInit
    /\ ApInit /\ FcInit /\ ImInit /\ EvInit /\ SdInit /\ MbInit

SpecContainer == Init /\ [][CtNext]_vars

SpecSplitter == Init /\ [][SpNext]_vars

SpecStatusBar == Init /\ [][SbNext]_vars

SpecTextArea == Init /\ [][TaNext]_vars

SpecComboBox == Init /\ [][CbNext]_vars

SpecTreeView == Init /\ [][TvNext]_vars

SpecApplication == Init /\ [][ApNext]_vars

SpecFactory == Init /\ [][FcNext]_vars

SpecImage == Init /\ [][ImNext]_vars

SpecEvents == Init /\ [][EvNext]_vars

SpecSaveDialog == Init /\ [][SdNext]_vars

SpecMenubar == Init /\ [][MbNext]_vars

(***************************************************************************)
(* CLAIMS                                                                  *)
(***************************************************************************)

\* C1: after every sequence of add_widget, remove, remove_all (and set_widget)
\* calls, each container's child list equals the list obtained by replaying
\* the calls on a plain ordered list: add appends, remove deletes the first
\* match, remove_all leaves the list empty.
C1_ChildrenRefinePlainList ==
    \A c \in Containers : children[c] = ctRef[c]

\* C1 witness: remove took the first of two equal children of the Box and
\* left the second one behind the other child.
C1_Witness ==
    /\ ctLast = [op |-> "remove", c |-> "box", w |-> "w1"]
    /\ ctErr = "none"
    /\ children["box"] = <<"w2", "w1">>

\* C2: in every container, remove(w) of a widget that is not in the child list
\* fails with the not-a-child error (KeyError) and leaves the child lists and
\* the native widget tree as they were.
C2_RemoveNotChildFails ==
    [][\A c \in Containers, w \in Widgets :
          (CtRemove(c, w) /\ ~InSeq(w, children[c]))
              => /\ ctErr' = "KeyError"
                 /\ children' = children
                 /\ nparent' = nparent]_vars

\* C2 witness: a remove just failed on a container that holds another child,
\* while the widget it named is natively inside a different container.
C2_Witness ==
    /\ ctLast = [op |-> "remove", c |-> "frame", w |-> "w2"]
    /\ ctErr = "KeyError"
    /\ children["frame"] = <<"w1">>
    /\ nparent["w2"] = "box"

\* C3: Frame, Expander and ScrollArea hold at most one child in every state,
\* and right after set_widget(child) the child list is exactly <<child>>.
C3_SingleSlotReplaces ==
    /\ \A c \in SingleSlot : Len(children[c]) <= 1
    /\ ctLast.op = "set_widget" => children[ctLast.c] = <<ctLast.w>>

\* C3 witness: set_widget replaced a child: the ScrollArea lists w2 after the
\* last set_widget(w2), and w1, set before, still sits under its viewport.
C3_Witness ==
    /\ ctLast = [op |-> "set_widget", c |-> "scrollarea", w |-> "w2"]
    /\ children["scrollarea"] = <<"w2">>
    /\ nparent["w1"] = "viewport"

\* the number of entries the child lists hold for widget w
OwnershipEntries(w) ==
    Cardinality(UNION {{<<c, i>> : i \in {j \in 1..Len(children[c]) :
                                              children[c][j] = w}} :
                       c \in Containers})

\* C4 (as claimed): every child wrapper is in the child list of at most one
\* container, and at most once in that list.
C4_ExclusiveOwnership ==
    \A w \in Widgets : OwnershipEntries(w) <= 1

\* the first n-1 panes each hold the next pane in their second slot
PaneChain(n) == \A k \in 1..n : slot2[k-1] = PaneSlot(k)

\* C5: after n >= 1 add_widget calls on a fresh Splitter with no removal, the
\* first child is in the first slot of the root pane, exactly n-1 nested
\* panes exist, and the k-th nested pane is in the second slot of its
\* predecessor (the root pane for k = 1); no other second slot is taken.
C5_SplitterPaneChain ==
    (~spRemoved /\ Len(spChildren) >= 1) =>
        /\ slot1[0] = WidgetSlot(spChildren[1])
        /\ panes = [k \in 1..(Len(spChildren) - 1) |-> k]
        /\ PaneChain(Len(panes))
        /\ \A k \in PaneIds : k >= Len(panes) => slot2[k] = EmptySlot

\* C5 witness: three adds, no removal, two nested panes in a chain.
C5_Witness ==
    /\ ~spRemoved
    /\ Len(spChildren) = 3
    /\ Len(panes) = 2
    /\ slot2[0] = PaneSlot(1)
    /\ slot2[1] = PaneSlot(2)

\* three different children were added to a fresh Splitter, none removed
ThreeAdded ==
    /\ ~spRemoved
    /\ Len(spChildren) = 3
    /\ Cardinality({spChildren[i] : i \in 1..3}) = 3

\* C6 (as claimed): adding 3 children gives exactly 2 nested panes, child 1 in
\* the root pane's first slot, child 2 in the nested pane's first slot and
\* child 3 in that same nested pane's second slot.
C6_ThirdChildInSecondSlot ==
    ThreeAdded =>
        /\ Len(panes) = 2
        /\ slot1[0] = WidgetSlot(spChildren[1])
        /\ slot1[1] = WidgetSlot(spChildren[2])
        /\ slot2[1] = WidgetSlot(spChildren[3])

\* C6 (amended): adding 3 children gives exactly 2 nested panes, child 1 in
\* the root pane's first slot, child 2 in the first nested pane's first slot,
\* and child 3 in the first slot of the second nested pane, which is what the
\* first nested pane holds in its second slot.
C6_ThirdChildInSecondPane ==
    ThreeAdded =>
        /\ Len(panes) = 2
        /\ slot1[0] = WidgetSlot(spChildren[1])
        /\ slot1[1] = WidgetSlot(spChildren[2])
        /\ slot2[1] = PaneSlot(2)
        /\ slot1[2] = WidgetSlot(spChildren[3])
        /\ slot2[2] = EmptySlot

\* C6 witness: w1, w2, w3 were added in this order.
C6_Witness ==
    /\ ThreeAdded
    /\ spChildren = <<"w1", "w2", "w3">>
    /\ spParent["w3"] = 2

\* C7: at most one auto-clear timer is pending; right after set_message
\* exactly one is pending, the one statustask names; and the status bar shows
\* nothing but the text of the most recent set_message.
C7_OneTimerLatestMessage ==
    /\ Cardinality(sbPending) <= 1
    /\ sbOp = "set_message" =>
           /\ Cardinality(sbPending) = 1
           /\ \A t \in sbPending : t.id = statustask
           /\ sbStack = <<sbLastMsg>>
    /\ sbStack = <<>> \/ sbStack = <<sbLastMsg>>

\* C7 witness: "b" was set while the auto-clear of an earlier message was
\* pending; that one was cancelled and only "b" shows.
C7_Witness ==
    /\ sbOp = "set_message"
    /\ sbLastMsg = "b"
    /\ sbRemoved = "removed"
    /\ sbStack = <<"b">>
    /\ statustask = 2

\* the lines of a buffer, split at the line breaks
RECURSIVE SplitLines(_)
SplitLines(buf) ==
    IF buf = <<>> THEN << <<>> >>
    ELSE LET rest == SplitLines(Tail(buf))
         IN  IF Head(buf) = "nl" THEN << <<>> >> \o rest
             ELSE << <<Head(buf)>> \o Head(rest) >> \o Tail(rest)

\* the last n elements of a sequence (all of it when it has fewer)
LastN(s, n) == IF Len(s) <= n THEN s ELSE SubSeq(s, Len(s) - n + 1, Len(s))

\* C8: with a line limit L >= 1, after every append_text (and set_text, which
\* appends) the buffer has at most L lines, exactly L when the untrimmed
\* buffer had more, the lines kept are the last L lines of the untrimmed
\* buffer, and an autoscroll goes to the end of the trimmed buffer.
C8_AppendKeepsLastLines ==
    (taOp \in {"append_text", "set_text"} /\ histlimit >= 1) =>
        /\ Len(SplitLines(taBuf)) <= histlimit
        /\ Len(SplitLines(taUntrimmed)) > histlimit
               => Len(SplitLines(taBuf)) = histlimit
        /\ SplitLines(taBuf) = LastN(SplitLines(taUntrimmed), histlimit)
        /\ taScroll # -1 => taScroll = Len(taBuf)

\* C8 witness: an append without autoscroll under limit 2 made three lines and
\* the oldest one was dropped.
C8_Witness ==
    /\ taOp = "append_text"
    /\ histlimit = 2
    /\ taScroll = -1
    /\ Len(SplitLines(taUntrimmed)) = 3
    /\ Len(SplitLines(taBuf)) = 2
    /\ taBuf # taUntrimmed

\* C9 (as claimed): while the limit is 0, append_text, set_text and
\* set_limit(0) remove nothing, and a buffer whose limit was 0 ever since the
\* last clear holds all the text appended since.
C9_LimitZeroUnbounded ==
    /\ (histlimit = 0 /\ taOp \in {"append_text", "set_text", "set_limit"})
           => taBuf = taUntrimmed
    /\ taZero => taBuf = taAll

\* the number of entries of a list equal to text
CountOf(s, text) == Cardinality({i \in 1..Len(s) : s[i] = text})

\* C10: starting from an empty model, after any sequence of insert_alpha
\* calls the entries are in non-decreasing lexicographic order and are a
\* permutation of the inserted texts (each call added exactly one entry).
C10_InsertAlphaSorted ==
    cbOnlyAlpha =>
        /\ \A i \in 1..(Len(cbModel) - 1) : ~StrGreater(cbModel[i], cbModel[i+1])
        /\ Len(cbModel) = Len(cbInserted)
        /\ \A text \in Strings : CountOf(cbModel, text) = CountOf(cbInserted, text)

\* C10 witness: three insert_alpha calls, out of order and with a duplicate,
\* the first of them on the empty model.
C10_Witness ==
    /\ cbOnlyAlpha
    /\ cbInserted = << <<2>>, <<1, 2>>, <<2>> >>
    /\ cbModel = << <<1, 2>>, <<2>>, <<2>> >>

\* What the mapping a tree was built from asks of the store: one row per
\* node in depth-first order, with the node's key, the top-level key it lies
\* under, the row of its enclosing mapping (0 at the top level) and whether
\* it is terminal.
RECURSIVE Mirror(_, _, _, _)
Mirror(items, encl, top, base) ==
    IF items = <<>> THEN <<>>
    ELSE LET e    == Head(items)
             t    == IF encl = 0 THEN e.key ELSE top
             own  == [key |-> e.key, top |-> t, parent |-> encl,
                      term |-> e.node.term, vals |-> e.node.vals]
             sub  == IF e.node.term THEN <<>>
                     ELSE Mirror(e.node.items, base + 1, t, base + 1)
         IN  <<own>> \o sub \o Mirror(Tail(items), encl, top,
                                      base + 1 + Len(sub))

MirrorOfTree == Mirror(tvTree, 0, "", 0)

\* C11: with headers declared and a tree set, moving the cursor to a terminal
\* row that lies under a branch fires `selected` exactly once, with the
\* top-level key the leaf lies under and the key of the leaf; moving it to a
\* row without a parent fires nothing.
C11_SelectedReportsTopAndLeafKey ==
    (tvOp = "cursor" /\ tvColumns # <<>>) =>
        LET e == MirrorOfTree[tvCursor]
        IN  /\ (e.term /\ e.parent # 0) =>
                   tvEvents = <<[top |-> e.top, item |-> e.key]>>
            /\ tvRows[tvCursor].parent = 0 => tvEvents = <<>>

\* C12: set_tree leaves exactly the rows that mirror the mapping: a parentless
\* branch row per top-level key, a branch row under the row of its enclosing
\* mapping per nested mapping, and a row under its enclosing branch per
\* terminal node, holding the node's values in declared column order.
C12_RowsMirrorMapping ==
    tvOp = "set_tree" =>
        LET m == MirrorOfTree
        IN  /\ Len(tvRows) = Len(m)
            /\ \A i \in 1..Len(m) :
                   /\ i <= Len(tvRows)
                   /\ tvRows[i].parent = m[i].parent
                   /\ tvRows[i].isstr = ~m[i].term
                   /\ ~m[i].term => tvRows[i].s = m[i].key
                   /\ m[i].term =>
                          tvRows[i].l = [k \in 1..Len(tvColumns) |->
                                             m[i].vals[tvColumns[k]]]

\* C13: the k-th registration without an explicit id (k from 0) gets the id
\* win<k>; the counter counts exactly the generated ids, so it never goes
\* down and moves only when an id is generated; the generated ids are
\* pairwise distinct, the first two being win0 and win1.
C13_AutoIdsCountUp ==
    /\ wincnt = Len(apAuto)
    /\ \A k \in 1..Len(apAuto) : apAuto[k] = WinId(k - 1)
    /\ Len(apAuto) >= 1 => apAuto[1] = <<"w", "i", "n", "0">>
    /\ Len(apAuto) >= 2 => apAuto[2] = <<"w", "i", "n", "1">>
    /\ \A j, k \in 1..Len(apAuto) : j # k => apAuto[j] # apAuto[k]

\* two make_window() calls on a fresh Application gave win0 and win1
C13_Witness ==
    /\ apOp.op = "make_window"
    /\ tlBuilt = 2
    /\ tlWid["t1"] = <<"w", "i", "n", "0">>
    /\ tlWid["t2"] = <<"w", "i", "n", "1">>
    /\ wincnt = 2

\* C14: every window that was registered is what get_window returns for the
\* id stamped on it, so distinct registered windows carry distinct ids and no
\* registration replaces the entry of another window.
C14_RegistryIdsUnique ==
    \A i \in 1..Len(TopLevels) :
        LET w == TopLevels[i]
        IN  tlWid[w] # None => get_window(window_dict, tlWid[w]) = w

\* C15: no step takes an id out of the registry, and a close of a window, by
\* close(), a delete event or a native destroy, fires `closed` and leaves the
\* registry as it was.
C15_CloseKeepsRegistry ==
    [][/\ get_wids(window_dict) \subseteq get_wids(window_dict')
       /\ apOp'.op \in CloseKinds =>
              /\ apOp'.closed >= 1
              /\ window_dict' = window_dict
              /\ tlWid' = tlWid]_vars

\* a registered window was closed and is still registered
C15_Witness ==
    /\ apOp.op \in CloseKinds
    /\ apOp.closed >= 1
    /\ apOp.w \in tlDestroyed
    /\ tlWid[apOp.w] # None
    /\ has_window(window_dict, tlWid[apOp.w])
    /\ get_window(window_dict, tlWid[apOp.w]) = apOp.w

\* the type tags and orientations the layer documents
KnownWtypes ==
    {"label", "llabel", "entry", "entryset", "combobox", "spinbutton",
     "spinfloat", "vbox", "hbox", "hscale", "vscale", "checkbutton",
     "radiobutton", "togglebutton", "button", "spacer", "textarea",
     "toolbar", "menubar"}
KnownOrientations == {"horizontal", "vertical"}

\* C16: make_widget with an unknown type tag raises ValueError and gives no
\* widget, and constructing a Box, Slider, ScrollBar, Splitter or Toolbar
\* with an orientation other than 'horizontal' and 'vertical' raises an
\* error instead of building a widget of a default orientation.
C16_MisconfigurationRaises ==
    /\ (fcOp.fn = "make_widget" /\ fcOp.arg \notin KnownWtypes) =>
           fcErr = "ValueError"
    /\ (fcOp.fn \in OrientedClasses /\ fcOp.arg \notin KnownOrientations) =>
           fcErr # "none"

\* C17: `activated` fires only at a release of the primary button that finds
\* a primary press with no `activated` since, and then exactly once; a
\* primary release without such a press fires nothing; `activated` never
\* fired more often than the primary button was pressed; a press of the
\* secondary button fires nothing and pops the menu up when one is set.
C17_ActivatedPerPressReleasePair ==
    /\ imActivated <= imPresses
    /\ imLast.fired \in {0, 1}
    /\ imLast.fired = 1 <=>
           (imLast.sig = "release" /\ imLast.button = 1 /\ imLast.pending)
    /\ (imLast.sig = "press" /\ imLast.button = 3) =>
           /\ imLast.fired = 0
           /\ imLast.popups = 1 <=>
                  (imMenu # "None" /\ imLast.type = "BUTTON_PRESS")

\* press, release, release of the primary button: the first release fired,
\* the second found no pending press and fired nothing
C17_Witness ==
    /\ imLast.sig = "release"
    /\ imLast.button = 1
    /\ ~imLast.pending
    /\ imLast.fired = 0
    /\ imPresses = 1
    /\ imActivated = 1

\* the event names the handlers of the control under view fire
FiredNames == {h.name : h \in evHandlers}

\* C18: every event name a control fires through a redirect was enabled by
\* its constructor, so no native signal ends in firing an unregistered name;
\* and a listener can be registered for each of the control's events as soon
\* as it is constructed.
C18_FiredNamesEnabled ==
    /\ evCls # "none" => FiredNames \subseteq evEnabled
    /\ evOp.op = "signal" => evErr = "none"
    /\ (evOp.op = "add_callback" /\ evOp.arg \in FiredNames) =>
           (evErr = "none" /\ evOp.arg \in evListeners)

\* a ScrollBar's value-changed signal fired `activated` without an error
C18_Witness ==
    /\ evCls = "ScrollBar"
    /\ evOp = [op |-> "signal", arg |-> "value-changed"]
    /\ "activated" \in evEnabled
    /\ evErr = "none"

\* the extension the requested filter stands for: the first of png, avi, npz
\* it contains
FilterExtension ==
    IF sdFilter = None THEN None
    ELSE IF Contains(<<"p", "n", "g">>, sdFilter) THEN <<".", "p", "n", "g">>
    ELSE IF Contains(<<"a", "v", "i">>, sdFilter) THEN <<".", "a", "v", "i">>
    ELSE IF Contains(<<"n", "p", "z">>, sdFilter) THEN <<".", "n", "p", "z">>
    ELSE None

\* C19: get_path returns None on cancellation; on confirmation with a filter
\* that contains png, avi or npz it returns the chosen path when that ends
\* with the extension and the path plus the extension otherwise; for every
\* filter the returned path is the chosen path or the chosen path plus one of
\* the three extensions; and the dialog is destroyed on every response.
C19_PathGetsKnownExtension ==
    /\ sdResponse = "RESPONSE_CANCEL" => sdResult = None
    /\ (sdResponse = "RESPONSE_OK" /\ FilterExtension # None) =>
           sdResult = IF EndsWith(sdChosen, FilterExtension) THEN sdChosen
                      ELSE sdChosen \o FilterExtension
    /\ sdResponse = "RESPONSE_OK" =>
           sdResult \in {sdChosen, sdChosen \o <<".", "p", "n", "g">>,
                         sdChosen \o <<".", "a", "v", "i">>,
                         sdChosen \o <<".", "n", "p", "z">>}
    /\ sdResponse # "none" => sdDestroyed

\* C20: one close of a TopLevel, by close(), by a delete event or by a native
\* destroy, delivers `closed` exactly once and has the native window emit
\* destroy at most once.
C20_ClosedOncePerClose ==
    apOp.op \in CloseKinds => (apOp.closed = 1 /\ apOp.emits <= 1)

\* C21: whenever set_message cancels a timer, the handle in statustask names
\* an auto-clear timer that is still pending; once an auto-clear timer has
\* fired, no later set_message asks glib to remove that expired handle.
C21_CancelsOnlyPendingTimer ==
    sbOp = "set_message" => sbRemoved # "stale"

\* C22: a wrapper in a container's child list has its native widget directly
\* under the container's own native widget, the one remove() detaches from:
\* in Box, Frame, Expander and ScrollArea, in the Splitter (whose own widget
\* is the root pane), and in the Menubar.
C22_ChildIsNativeChild ==
    /\ \A c \in Containers : \A i \in 1..Len(children[c]) :
           nparent[children[c][i]] = c
    /\ \A i \in 1..Len(spChildren) : spParent[spChildren[i]] = 0
    /\ \A i \in 1..Len(mbChildren) : InSeq(MenuW(mbChildren[i]), mbBar)

====
